---- MODULE Spec2Model ----
(***************************************************************************)
(* Model of src/checker.py: the PATH delay checker.                        *)
(*                                                                         *)
(* Texts, identifiers and file contents are sequences of one-character     *)
(* strings, so that lower(), strip(), the `in` operator and the two        *)
(* regular expressions are computed character by character.                *)
(*                                                                         *)
(* The program's only state between runs is LAST_ALERT_FILE.  The other    *)
(* variables record what a run did: Spec records the last run in detail,   *)
(* SpecHistory records what the runs so far have seen and notified, and    *)
(* SpecClassifier applies analyze_tweet_for_delay on its own.              *)
(***************************************************************************)
EXTENDS Integers, Sequences, FiniteSets, TLC

VARIABLES
    last_alert_file,   \* LAST_ALERT_FILE on disk: [exists, content]
    BEARER_TOKEN,      \* last run: os.getenv("BEARER_TOKEN") ("" = unset)
    NTFY_TOPIC,        \* last run: os.getenv("NTFY_TOPIC") ("" = unset)
    response,          \* last run: what requests.get met
    file_before,       \* last run: LAST_ALERT_FILE as the run found it
    posted,            \* last run: its requests.post calls, in order
    console,           \* last run: the lines it printed, in order
    exit,              \* last run: "not run", "returned" or the uncaught exception
    last_newest,       \* history: data[0].id of the latest run that fetched a non-empty batch
    seen_newest,       \* history: ids that were data[0] in some run
    seen_any,          \* history: ids that were in some fetched batch
    superseded,        \* history: ids of delay posts that were not data[0] when first fetched
    alerted,           \* history: ids a notification was posted for
    realerted,         \* history: ids a notification was posted for more than once
    alerted_older,     \* history: ids a notification was posted for while not data[0]
    same_or_new,       \* history: every data[0] so far was the previous data[0] or never data[0] before
    same_or_fresh,     \* history: every data[0] so far was the previous data[0] or in no earlier batch
    sample_text,       \* classifier alone: the text handed to analyze_tweet_for_delay
    analysed,          \* classifier alone: analyze_tweet_for_delay has returned
    analysis           \* classifier alone: what it returned

last_run_vars == <<BEARER_TOKEN, NTFY_TOPIC, response, file_before, posted, console, exit>>

history_vars == <<last_newest, seen_newest, seen_any, superseded, alerted,
                  realerted, alerted_older, same_or_new, same_or_fresh>>

classifier_vars == <<sample_text, analysed, analysis>>

vars == <<last_alert_file, last_run_vars, history_vars, classifier_vars>>

----------------------------------------------------------------------------
(* Bounds *)

MaxFrags == 3      \* fragments concatenated into one classifier input

----------------------------------------------------------------------------
(* Characters and str methods *)

Range(s) == {s[i] : i \in DOMAIN s}

UpperLetters == <<"A","B","C","D","E","F","G","H","I","J","K","L","M","N","O","P","Q","R","S","T","U","V","W","X","Y","Z">>
LowerLetters == <<"a","b","c","d","e","f","g","h","i","j","k","l","m","n","o","p","q","r","s","t","u","v","w","x","y","z">>
Digits == {"0","1","2","3","4","5","6","7","8","9"}

IsUpper(c) == c \in Range(UpperLetters)
IsDigit(c) == c \in Digits
IsSpace(c) == c \in {" ", "\t", "\n", "\r"}
IsWord(c) == c \in Range(UpperLetters) \cup Range(LowerLetters) \cup Digits \cup {"_"}

\* str.lower() on one character
LowerChar(c) ==
    IF IsUpper(c)
    THEN LowerLetters[CHOOSE i \in DOMAIN UpperLetters : UpperLetters[i] = c]
    ELSE c

\* str.lower()
lower(s) == [i \in DOMAIN s |-> LowerChar(s[i])]

\* Python's `keyword in text` on str
In(keyword, text) ==
    \E i \in 1..(Len(text) - Len(keyword) + 1) :
        SubSeq(text, i, i + Len(keyword) - 1) = keyword

\* str.strip()
strip(s) ==
    LET keep == {i \in DOMAIN s : ~IsSpace(s[i])}
    IN  IF keep = {} THEN <<>>
        ELSE SubSeq(s, CHOOSE i \in keep : \A j \in keep : i <= j,
                       CHOOSE i \in keep : \A j \in keep : j <= i)

----------------------------------------------------------------------------
(* analyze_tweet_for_delay *)

resume_keywords == <<
    <<"r","e","s","u","m","i","n","g">>,
    <<"r","e","s","u","m","e","d">>,
    <<"r","e","s","o","l","v","e","d">>,
    <<"c","l","e","a","r","e","d">>,
    <<"n","o","r","m","a","l"," ","s","e","r","v","i","c","e">> >>

delay_keywords == <<
    <<"d","e","l","a","y","e","d">>,
    <<"s","u","s","p","e","n","d","e","d">>,
    <<"s","e","r","v","i","c","e"," ","c","h","a","n","g","e">>,
    <<"a","d","v","i","s","o","r","y">>,
    <<"h","e","a","d","s"," ","u","p">> >>

\* The three messages (the leading emoji of each is left out)
MsgResuming == "Service appears to be resuming or has returned to normal."
MsgDelay == "Potential delay or service change detected."
MsgNoInfo == "No specific delay or service change information found in the latest update."

\* A plausible slip: the delay keywords are tested before the resume keywords
analyze_delay_first(text) ==
    LET text_lower == lower(text)
    IN  IF \E k \in Range(delay_keywords) : In(k, text_lower)
        THEN [is_delay |-> TRUE, message |-> MsgDelay]
        ELSE IF \E k \in Range(resume_keywords) : In(k, text_lower)
        THEN [is_delay |-> FALSE, message |-> MsgResuming]
        ELSE [is_delay |-> FALSE, message |-> MsgNoInfo]

analyze_tweet_for_delay(text) ==
    LET text_lower == lower(text)
    IN  IF \E k \in Range(resume_keywords) : In(k, text_lower)
        THEN [is_delay |-> FALSE, message |-> MsgResuming]
        ELSE IF \E k \in Range(delay_keywords) : In(k, text_lower)
        THEN [is_delay |-> TRUE, message |-> MsgDelay]
        ELSE [is_delay |-> FALSE, message |-> MsgNoInfo]

----------------------------------------------------------------------------
(* parse_tweet_details: the two re.search calls *)

NA == <<"N","/","A">>

\* \b before position i (1..Len(text)+1)
WordBoundary(text, i) ==
    LET before == i > 1 /\ IsWord(text[i-1])
        after == i <= Len(text) /\ IsWord(text[i])
    IN  before # after

\* n characters from position i on, all upper-case letters / digits / whitespace
UppersAt(text, i, n) == i + n - 1 <= Len(text) /\ \A j \in i..(i+n-1) : IsUpper(text[j])
DigitsAt(text, i, n) == i + n - 1 <= Len(text) /\ \A j \in i..(i+n-1) : IsDigit(text[j])
SpacesAt(text, i, n) == i + n - 1 <= Len(text) /\ \A j \in i..(i+n-1) : IsSpace(text[j])
CharAt(text, i, c) == i <= Len(text) /\ text[i] = c

\* A plausible slip: a station code is letters only
StationAt_letters(text, i, n) == n \in {3, 4} /\ UppersAt(text, i, n)

\* ([A-Z]{3,4}|\d{1,2}) matching n characters at position i
StationAt(text, i, n) ==
    \/ n \in {3, 4} /\ UppersAt(text, i, n)
    \/ n \in {1, 2} /\ DigitsAt(text, i, n)

\* The ways \b(station-station)\b matches at position i, as <<a, b>> = the
\* lengths of the two station codes.
LineMatchesAt(text, i) ==
    {m \in (1..4) \X (1..4) :
        /\ WordBoundary(text, i)
        /\ StationAt(text, i, m[1])
        /\ CharAt(text, i + m[1], "-")
        /\ StationAt(text, i + m[1] + 1, m[2])
        /\ WordBoundary(text, i + m[1] + 1 + m[2])}

\* The ways \b(\d{1,2}:\d{2}\s*(?:AM|PM))\b matches at position i, as
\* <<h, k>> = the number of hour digits and of whitespace characters.
TimeMatchesAt(text, i) ==
    {m \in (1..2) \X (0..Len(text)) :
        /\ WordBoundary(text, i)
        /\ DigitsAt(text, i, m[1])
        /\ CharAt(text, i + m[1], ":")
        /\ DigitsAt(text, i + m[1] + 1, 2)
        /\ SpacesAt(text, i + m[1] + 3, m[2])
        /\ \/ CharAt(text, i + m[1] + 3 + m[2], "A")
           \/ CharAt(text, i + m[1] + 3 + m[2], "P")
        /\ CharAt(text, i + m[1] + 4 + m[2], "M")
        /\ WordBoundary(text, i + m[1] + 5 + m[2])}

\* The backtracking order of both patterns: the first alternative and the
\* greedy repetition are tried first, so the longer first part wins, then the
\* longer second part.
Preferred(ms) ==
    CHOOSE m \in ms : \A o \in ms : m[1] > o[1] \/ (m[1] = o[1] /\ m[2] >= o[2])

\* re.search: the leftmost of the positions where a pattern matches (0: none)
Leftmost(starts) ==
    IF starts = {} THEN 0 ELSE CHOOSE i \in starts : \A j \in starts : i <= j

parse_tweet_details(tweet_text) ==
    LET li == Leftmost({i \in 1..Len(tweet_text) : LineMatchesAt(tweet_text, i) # {}})
        lm == Preferred(LineMatchesAt(tweet_text, li))
        ti == Leftmost({i \in 1..Len(tweet_text) : TimeMatchesAt(tweet_text, i) # {}})
        tm == Preferred(TimeMatchesAt(tweet_text, ti))
    IN  [line |-> IF li # 0 THEN SubSeq(tweet_text, li, li + lm[1] + lm[2]) ELSE NA,
         time |-> IF ti # 0 THEN SubSeq(tweet_text, ti, ti + tm[1] + tm[2] + 4) ELSE NA]

----------------------------------------------------------------------------
(* The timeline API's answers *)

\* "PATH: HOB-33 suspended due to signal problem, advisory in effect"
TextSuspended == <<"P","A","T","H",":"," ","H","O","B","-","3","3"," ","s","u","s","p","e","n","d","e","d"," ","d","u","e"," ","t","o"," ","s","i","g","n","a","l"," ","p","r","o","b","l","e","m",","," ","a","d","v","i","s","o","r","y"," ","i","n"," ","e","f","f","e","c","t">>
\* "JSQ-33 delayed 9:05PM"
TextDelayed == <<"J","S","Q","-","3","3"," ","d","e","l","a","y","e","d"," ","9",":","0","5","P","M">>
\* "Service delayed HOB-WTC, resuming by 10:53 AM"
TextResuming == <<"S","e","r","v","i","c","e"," ","d","e","l","a","y","e","d"," ","H","O","B","-","W","T","C",","," ","r","e","s","u","m","i","n","g"," ","b","y"," ","1","0",":","5","3"," ","A","M">>
\* tweet.get('text', ...) of a post without text
NoTextFound == <<"N","o"," ","t","e","x","t"," ","f","o","u","n","d",".">>

TweetTexts == {TextSuspended, TextDelayed, TextResuming, NoTextFound}

Id100 == <<"1","0","0">>
Id101 == <<"1","0","1">>
Id102 == <<"1","0","2">>
Id103 == <<"1","0","3">>

\* The posts the account has made.  A post is a dict: a key it lacks is not
\* in its DOMAIN.  created_at is well-formed, malformed or missing.
Posts ==
    { [id |-> Id100, text |-> TextResuming],
      [id |-> Id101, text |-> TextSuspended, created_at |-> "2024-07-01T14:53:00.000Z"],
      [id |-> Id102],
      [id |-> Id103, text |-> TextDelayed, created_at |-> "yesterday"] }

Ids == {p.id : p \in Posts}

\* What the timeline API can list, newest first: any of the posts, in any
\* order (posts are made and withdrawn between runs), none twice
RECURSIVE Batches(_)
Batches(n) ==
    IF n = 0 THEN {<<>>}
    ELSE LET shorter == Batches(n - 1)
         IN  shorter \cup
             {Append(b, p) : b \in {c \in shorter : Len(c) = n - 1},
                             p \in Posts}

DistinctIds(b) == \A i, j \in DOMAIN b : i # j => b[i].id # b[j].id

\* response.json(): with a data list, without the data key, or the error
\* document of a refused request
Bodies ==
    {[data |-> b] : b \in {c \in Batches(Cardinality(Posts)) : DistinctIds(c)}}
    \cup {[meta |-> "result_count 0"]}

ErrorBody == [title |-> "Unauthorized"]

\* What requests.get meets: no connection, or a response with a status and a body
Responses ==
    {[kind |-> "ConnectionError"],
     [kind |-> "response", status |-> 401, json |-> ErrorBody]}
    \cup {[kind |-> "response", status |-> 200, json |-> j] : j \in Bodies}

NoResponse == [kind |-> "none"]

----------------------------------------------------------------------------
(* The loop over data['data'] *)

\* datetime.strptime(created_at, "%Y-%m-%dT%H:%M:%S.%fZ"), astimezone(nyc),
\* strftime("%A, %Y-%m-%d %I:%M:%S %p %Z"), for the timestamps of Posts
NycTimes == [t \in {"2024-07-01T14:53:00.000Z"} |-> "Monday, 2024-07-01 10:53:00 AM EDT"]

formatted_time(created_at) ==
    IF created_at \in DOMAIN NycTimes THEN NycTimes[created_at]   \* try
    ELSE created_at                                               \* except ValueError

\* analyze_tweet_for_delay and parse_tweet_details of the texts of Posts
Analysed == [t \in TweetTexts |-> analyze_tweet_for_delay(t)]
Details == [t \in TweetTexts |-> parse_tweet_details(t)]

tweet_text(tweet) == IF "text" \in DOMAIN tweet THEN tweet.text ELSE NoTextFound
tweet_created_at(tweet) == IF "created_at" \in DOMAIN tweet THEN tweet.created_at ELSE "Unknown time"

status_info(tweet) ==
    [Posted_At |-> formatted_time(tweet_created_at(tweet)),
     Affected_Line |-> Details[tweet_text(tweet)].line,
     Time_in_Alert |-> Details[tweet_text(tweet)].time,
     Analysis |-> Analysed[tweet_text(tweet)].message,
     Full_Update |-> tweet_text(tweet)]

is_delay_tweet(tweet) == Analysed[tweet_text(tweet)].is_delay

\* delay_statuses after the loop: the status_info of the delay tweets, in order
RECURSIVE delay_statuses(_)
delay_statuses(data) ==
    IF data = <<>> THEN <<>>
    ELSE (IF is_delay_tweet(Head(data)) THEN <<status_info(Head(data))>> ELSE <<>>)
         \o delay_statuses(Tail(data))

----------------------------------------------------------------------------
(* send_notification *)

PostResults == {"200", "500", "ConnectionError"}

PrintTopicNotSet == "NTFY_TOPIC not set. Skipping notification."
PrintSent == "Notification sent to topic"
PrintSendFailed == "Failed to send notification"

\* A plausible slip: no check of NTFY_TOPIC
send_notification_unchecked(topic, title, message, post_result) ==
    [posted |-> <<[topic |-> topic, data |-> message, Title |-> title,
                   Tags |-> "warning", result |-> post_result]>>,
     console |-> IF post_result = "ConnectionError"
                 THEN <<PrintSendFailed>> ELSE <<PrintSent>>]

\* post_result is what requests.post will meet: a status, or no connection
send_notification(topic, title, message, post_result) ==
    IF topic = ""
    THEN [posted |-> <<>>, console |-> <<PrintTopicNotSet>>]
    ELSE [posted |-> <<[topic |-> topic, data |-> message, Title |-> title,
                        Tags |-> "warning", result |-> post_result]>>,
          console |-> IF post_result = "ConnectionError"
                      THEN <<PrintSendFailed>>      \* except RequestException
                      ELSE <<PrintSent>>]           \* any status: nothing raised

----------------------------------------------------------------------------
(* get_latest_path_status *)

NoFile == [exists |-> FALSE, content |-> <<>>]

\* open(LAST_ALERT_FILE, 'w').write(latest_tweet_id)
write_file(latest_tweet_id) == [exists |-> TRUE, content |-> latest_tweet_id]

\* last_sent_id as read at the start of the dedup logic
read_last_sent_id(file) == IF file.exists THEN strip(file.content) ELSE <<>>

PrintNoToken == "Error: Bearer token not found. Please set it in your .env file."
PrintRequestError == "An error occurred during the API request"
PrintNoData == "Could not retrieve PATH status data. The response may be empty."
PrintNoNew == "No new delay alerts since last check."
PrintNewDelay == "New delay found"
PrintNoDelayInLatest == "No new delay alerts found in the latest tweet."

\* A plausible slip: the token is not checked
token_never_missing(token) == FALSE

\* `not BEARER_TOKEN`
token_missing(token) == token = ""

\* requests.get raises, or response.raise_for_status() does
raises_RequestException(resp) ==
    \/ resp.kind = "ConnectionError"
    \/ resp.status \notin 200..299

\* `data and 'data' in data`
has_data(json) == DOMAIN json # {} /\ "data" \in DOMAIN json

\* A plausible slip: any delay in the batch counts
any_delay(statuses, latest_tweet) == statuses # <<>>

\* `delay_statuses and delay_statuses[0]['Full Update'] == latest_tweet['text']`,
\* evaluated where latest_tweet['text'] does not raise
newest_is_delay(statuses, latest_tweet) ==
    statuses # <<>> /\ statuses[1].Full_Update = latest_tweet.text

\* The position in data of the tweet delay_statuses[0] was built from (0: none)
first_delay_index(data) ==
    LET ds == {i \in DOMAIN data : is_delay_tweet(data[i])}
    IN  IF ds = {} THEN 0 ELSE CHOOSE i \in ds : \A j \in ds : i <= j

AlertTitle(line) == <<"P","A","T","H"," ","A","l","e","r","t",":"," ">> \o line

Ended(file, p, c, e, ai) ==
    [file |-> file, posted |-> p, console |-> c, exit |-> e, alert_index |-> ai]

\* One run of get_latest_path_status: the file it leaves, the POSTs it made,
\* the lines it printed and how it ended.  alert_index is the position in
\* data of the tweet the notification was built from.
run(file, token, topic, resp, post_result) ==
    IF token_missing(token)
    THEN Ended(file, <<>>, <<PrintNoToken>>, "returned", 0)
    ELSE IF raises_RequestException(resp)
    THEN Ended(file, <<>>, <<PrintRequestError>>, "returned", 0)
    ELSE IF ~has_data(resp.json)
    THEN Ended(file, <<>>, <<PrintNoData>>, "returned", 0)
    ELSE
    LET data == resp.json.data
        last_sent_id == read_last_sent_id(file)
    IN  IF data = <<>>
        THEN Ended(file, <<>>, <<>>, "IndexError", 0)          \* data['data'][0]
        ELSE
        LET latest_tweet == data[1]
            latest_tweet_id == latest_tweet.id
            statuses == delay_statuses(data)
        IN  IF latest_tweet_id = last_sent_id
            THEN Ended(file, <<>>, <<PrintNoNew>>, "returned", 0)
            ELSE IF statuses # <<>> /\ "text" \notin DOMAIN latest_tweet
            THEN Ended(file, <<>>, <<>>, "KeyError", 0)        \* latest_tweet['text']
            ELSE IF newest_is_delay(statuses, latest_tweet)
            THEN LET latest_delay == statuses[1]
                     title == AlertTitle(latest_delay.Affected_Line)
                     message == latest_delay.Full_Update
                     sent == send_notification(topic, title, message, post_result)
                 IN  Ended(write_file(latest_tweet_id), sent.posted,
                           <<PrintNewDelay>> \o sent.console, "returned",
                           first_delay_index(data))
            ELSE Ended(write_file(latest_tweet_id), <<>>,
                       <<PrintNoDelayInLatest>>, "returned", 0)

\* The batch a run loops over (empty when it does not get that far)
fetched(token, resp) ==
    IF ~token_missing(token) /\ ~raises_RequestException(resp) /\ has_data(resp.json)
    THEN resp.json.data ELSE <<>>

BatchIds(b) == {b[i].id : i \in DOMAIN b}

\* The ways one run can go, over what requests.post may meet
runs_of(file, token, topic, resp) ==
    {run(file, token, topic, resp, post_result) : post_result \in PostResults}

Tokens == {"", "token"}
Topics == {"", "path-alerts"}

\* One invocation of the script, with the environment, the timeline API's
\* answer and the notification service's answer of that invocation; the
\* variables of the last run record it.
get_latest_path_status ==
    \E token \in Tokens, topic \in Topics, resp \in Responses :
        \E r \in runs_of(last_alert_file, token, topic, resp) :
            /\ last_alert_file' = r.file
            /\ file_before' = last_alert_file
            /\ BEARER_TOKEN' = token
            /\ NTFY_TOPIC' = topic
            /\ response' = IF token = "" THEN NoResponse ELSE resp
            /\ posted' = r.posted
            /\ console' = r.console
            /\ exit' = r.exit
            /\ UNCHANGED <<history_vars, classifier_vars>>

\* The same invocation, with the history variables recording it instead.
get_latest_path_status_history ==
    \E token \in Tokens, topic \in Topics, resp \in Responses :
        \E r \in runs_of(last_alert_file, token, topic, resp) :
            LET b == fetched(token, resp)
                n == IF b = <<>> THEN <<>> ELSE b[1].id
                alert_ids == IF r.posted = <<>> THEN {} ELSE {b[r.alert_index].id}
            IN  /\ last_alert_file' = r.file
                /\ last_newest' = IF b = <<>> THEN last_newest ELSE n
                /\ seen_newest' = IF b = <<>> THEN seen_newest ELSE seen_newest \cup {n}
                /\ seen_any' = seen_any \cup BatchIds(b)
                /\ superseded' = superseded \cup
                       {b[i].id : i \in {j \in DOMAIN b : /\ j > 1
                                                           /\ b[j].id \notin seen_any
                                                           /\ is_delay_tweet(b[j])}}
                /\ alerted' = alerted \cup alert_ids
                /\ realerted' = realerted \cup (alert_ids \cap alerted)
                /\ alerted_older' = alerted_older \cup (alert_ids \ {n})
                /\ same_or_new' = (same_or_new /\ (b = <<>> \/ n = last_newest \/ n \notin seen_newest))
                /\ same_or_fresh' = (same_or_fresh /\ (b = <<>> \/ n = last_newest \/ n \notin seen_any))
                /\ UNCHANGED <<last_run_vars, classifier_vars>>

----------------------------------------------------------------------------
(* The classifier alone, on texts put together from fragments *)

Fragments == {
    <<"d","e","l","a","y","e","d">>, <<"S","U","S","P","E","N","D","E","D">>,
    <<"S","e","r","v","i","c","e">>, <<" ">>, <<"c","h","a","n","g","e">>,
    <<"A","d","v","i","s","o","r","y">>, <<"h","e","a","d","s">>, <<"u","p">>,
    <<"R","e","s","u","m">>, <<"i","n","g">>, <<"e","d">>,
    <<"r","e","s","o","l","v","e","d">>, <<"C","l","e","a","r","e","d">>,
    <<"N","O","R","M","A","L">>, <<"P","A","T","H">> }

RECURSIVE FragmentTexts(_)
FragmentTexts(n) ==
    IF n = 0 THEN {<<>>}
    ELSE LET shorter == FragmentTexts(n - 1)
         IN  shorter \cup {t \o f : t \in shorter, f \in Fragments}

SampleTexts == FragmentTexts(MaxFrags)

NotAnalysed == [is_delay |-> FALSE, message |-> ""]

Analyse ==
    /\ ~analysed
    /\ analysis' = analyze_tweet_for_delay(sample_text)
    /\ analysed' = TRUE
    /\ UNCHANGED <<sample_text, last_alert_file, last_run_vars, history_vars>>

----------------------------------------------------------------------------
(* Specifications *)

InitRun ==
    /\ last_alert_file = NoFile
    /\ file_before = NoFile
    /\ BEARER_TOKEN = ""
    /\ NTFY_TOPIC = ""
    /\ response = NoResponse
    /\ posted = <<>>
    /\ console = <<>>
    /\ exit = "not run"
    /\ last_newest = <<>>
    /\ seen_newest = {}
    /\ seen_any = {}
    /\ superseded = {}
    /\ alerted = {}
    /\ realerted = {}
    /\ alerted_older = {}
    /\ same_or_new = TRUE
    /\ same_or_fresh = TRUE

Init ==
    /\ InitRun
    /\ sample_text = <<>>
    /\ analysed = FALSE
    /\ analysis = NotAnalysed

\* Runs one after another, each observed through the variables of the last run
Next == get_latest_path_status

Spec == Init /\ [][Next]_vars

\* Runs one after another, observed through the history variables
NextHistory == get_latest_path_status_history

SpecHistory == Init /\ [][NextHistory]_vars

InitClassifier ==
    /\ InitRun
    /\ sample_text \in SampleTexts
    /\ analysed = FALSE
    /\ analysis = NotAnalysed

NextClassifier == Analyse

SpecClassifier == InitClassifier /\ [][NextClassifier]_vars

----------------------------------------------------------------------------
(* The last run, read off the variables that record it *)

Ran == exit # "not run"

\* The batch the last run was handed: HTTP 200 with a data list
LastBatch ==
    IF /\ Ran
       /\ response.kind = "response"
       /\ response.status = 200
       /\ "data" \in DOMAIN response.json
    THEN response.json.data ELSE <<>>

Newest == LastBatch[1]

\* The fetch step of the last run failed
FetchFailed ==
    /\ Ran
    /\ \/ BEARER_TOKEN = ""
       \/ response.kind = "ConnectionError"
       \/ response.kind = "response" /\ response.status \notin 200..299

\* The last run was handed a batch whose newest post is a delay the stored
\* marker does not name
NewDelay ==
    /\ LastBatch # <<>>
    /\ is_delay_tweet(Newest)
    /\ ~(file_before.exists /\ file_before.content = Newest.id)

MarkerIs(id) == last_alert_file = [exists |-> TRUE, content |-> id]

\* The last run posted one notification, built from the newest post
OneAlertForNewest ==
    /\ Len(posted) = 1
    /\ posted[1].data = Newest.text
    /\ posted[1].Title = AlertTitle(parse_tweet_details(Newest.text).line)

----------------------------------------------------------------------------
(* C1 *)

\* C1 as stated: whenever the newest post of the fetched batch is a delay and
\* its id differs from the stored marker, the run posts exactly one
\* notification, for that post, and leaves the marker at that post's id --
\* with the notification topic set or unset.
C1_AsStated == NewDelay => (OneAlertForNewest /\ MarkerIs(Newest.id))

\* C1 amended: in that case the run leaves the marker at the newest post's id;
\* it posts exactly one notification, for that post, when the topic is set,
\* and none when the topic is unset.
C1_OneAlertWhenTopicSet ==
    NewDelay =>
        /\ MarkerIs(Newest.id)
        /\ NTFY_TOPIC # "" => OneAlertForNewest
        /\ NTFY_TOPIC = "" => posted = <<>>

C1_Witness ==
    /\ NewDelay
    /\ file_before.exists
    /\ NTFY_TOPIC # ""
    /\ Len(posted) = 1

----------------------------------------------------------------------------
(* C2 *)

\* C2: whenever the newest post of the fetched batch is not a delay, whatever
\* the older posts are, the run posts nothing and leaves the marker at the
\* newest post's id.
C2_QuietRunMovesMarker ==
    (LastBatch # <<>> /\ ~is_delay_tweet(Newest)) =>
        (posted = <<>> /\ MarkerIs(Newest.id))

----------------------------------------------------------------------------
(* C3 *)

\* C3: when a run is handed a batch with the same newest id as the run before
\* it, it posts nothing and leaves the marker file as that run left it.
C3_SecondRunIdle ==
    [][ (/\ LastBatch # <<>>
         /\ LastBatch' # <<>>
         /\ LastBatch'[1].id = LastBatch[1].id)
        => (posted' = <<>> /\ last_alert_file' = last_alert_file) ]_vars

----------------------------------------------------------------------------
(* C4 *)

\* C4: a run whose fetch step fails (no token, no connection, or a status
\* outside 2xx) posts nothing and leaves the marker file as it found it,
\* absent if it was absent.
C4_FetchFailureKeepsMarker ==
    FetchFailed => (posted = <<>> /\ last_alert_file = file_before)

C4_Witness ==
    /\ FetchFailed
    /\ BEARER_TOKEN = ""
    /\ file_before.exists

----------------------------------------------------------------------------
(* C5 *)

\* C5: when the POST of a new delay's notification fails -- no connection, or
\* a status outside 2xx -- the run prints the failure, returns normally and
\* leaves the marker at the newest post's id.
C5_FailedPostIsLogged ==
    (/\ NewDelay
     /\ posted # <<>>
     /\ posted[1].result \in {"500", "ConnectionError"})
    => (/\ PrintSendFailed \in Range(console)
        /\ PrintSent \notin Range(console)
        /\ exit = "returned"
        /\ MarkerIs(Newest.id))

----------------------------------------------------------------------------
(* C6 *)

\* C6: once the marker file has been written, after every run it holds the
\* id of the newest post of the latest run that was handed a non-empty batch,
\* which is an id that was newest in some run.
C6_MarkerIsLastNewest ==
    last_alert_file.exists =>
        (last_alert_file.content = last_newest /\ last_alert_file.content \in seen_newest)

----------------------------------------------------------------------------
(* C7 *)

\* C7: no run ends in an uncaught exception, and a run handed a response
\* without a data key or with an empty data list returns having posted
\* nothing and left the marker file alone.
C7_NoUncaughtError ==
    /\ exit \in {"not run", "returned"}
    /\ (/\ Ran
        /\ response.kind = "response"
        /\ response.status = 200
        /\ LastBatch = <<>>)
       => (posted = <<>> /\ last_alert_file = file_before)

----------------------------------------------------------------------------
(* C8 *)

UpperChar(c) ==
    IF c \in Range(LowerLetters)
    THEN UpperLetters[CHOOSE i \in DOMAIN LowerLetters : LowerLetters[i] = c]
    ELSE c

\* word occurs in text, letter case aside
Mentions(text, word) ==
    \E i \in 1..(Len(text) - Len(word) + 1) :
        \A j \in 1..Len(word) : UpperChar(text[i + j - 1]) = word[j]

DelayWords == {
    <<"D","E","L","A","Y","E","D">>, <<"S","U","S","P","E","N","D","E","D">>,
    <<"S","E","R","V","I","C","E"," ","C","H","A","N","G","E">>,
    <<"A","D","V","I","S","O","R","Y">>, <<"H","E","A","D","S"," ","U","P">> }

ResumeWords == {
    <<"R","E","S","U","M","I","N","G">>, <<"R","E","S","U","M","E","D">>,
    <<"R","E","S","O","L","V","E","D">>, <<"C","L","E","A","R","E","D">>,
    <<"N","O","R","M","A","L"," ","S","E","R","V","I","C","E">> }

MentionsDelay(text) == \E w \in DelayWords : Mentions(text, w)
MentionsResume(text) == \E w \in ResumeWords : Mentions(text, w)

\* C8: analyze_tweet_for_delay answers is_delay exactly for the texts that
\* mention a delay word and no resume word, letter case aside; a text that
\* mentions neither gets is_delay false and the "no information" message.
C8_DelayIffDelayWordAndNoResumeWord ==
    analysed =>
        /\ analysis.is_delay = (MentionsDelay(sample_text) /\ ~MentionsResume(sample_text))
        /\ (~MentionsDelay(sample_text) /\ ~MentionsResume(sample_text))
               => analysis = [is_delay |-> FALSE, message |-> MsgNoInfo]

C8_Witness ==
    /\ analysed
    /\ MentionsDelay(sample_text)
    /\ MentionsResume(sample_text)
    /\ ~analysis.is_delay

----------------------------------------------------------------------------
(* C9 *)

HOB33 == <<"H","O","B","-","3","3">>

\* The scenario: marker "100", newest post "101" with the "HOB-33 suspended"
\* text, topic set
Scenario ==
    /\ file_before = [exists |-> TRUE, content |-> Id100]
    /\ LastBatch # <<>>
    /\ Newest.id = Id101
    /\ Newest.text = TextSuspended
    /\ NTFY_TOPIC # ""

\* C9 as stated: in the scenario the post is classified as a delay, the
\* extractor returns line "N/A" and time "N/A", one notification is posted
\* with a title containing "N/A", and the marker ends as "101".
C9_AsStated ==
    Scenario =>
        /\ analyze_tweet_for_delay(Newest.text).is_delay
        /\ parse_tweet_details(Newest.text) = [line |-> NA, time |-> NA]
        /\ Len(posted) = 1
        /\ In(NA, posted[1].Title)
        /\ MarkerIs(Id101)

\* C9 amended: in the scenario the post is classified as a delay, the
\* extractor returns line "HOB-33" and time "N/A", one notification is posted
\* with the title "PATH Alert: HOB-33", and the marker ends as "101".
C9_ScenarioLineHOB33 ==
    Scenario =>
        /\ analyze_tweet_for_delay(Newest.text).is_delay
        /\ parse_tweet_details(Newest.text) = [line |-> HOB33, time |-> NA]
        /\ Len(posted) = 1
        /\ posted[1].Title = AlertTitle(HOB33)
        /\ ~In(NA, posted[1].Title)
        /\ posted[1].data = TextSuspended
        /\ MarkerIs(Id101)

C9_Witness == Scenario /\ Len(posted) = 1 /\ exit = "returned"

----------------------------------------------------------------------------
(* C10 *)

\* C10 as stated: as long as every run's newest id is that of the previous
\* batch or was never newest before, no id is notified twice, every
\* notification is for the newest post of its batch, and no delay post that
\* was below the newest when first fetched is ever notified.
C10_AsStated ==
    same_or_new =>
        /\ realerted = {}
        /\ alerted_older = {}
        /\ alerted \cap superseded = {}

\* C10 amended: as long as every run's newest id is that of the previous
\* batch or was never newest before, no id is notified twice and every
\* notification is for the newest post of its batch; as long as every run's
\* newest id is that of the previous batch or was in no earlier batch at all,
\* no delay post that was below the newest when first fetched is ever notified.
C10_NoRepeatNoStaleAlert ==
    /\ same_or_new => (realerted = {} /\ alerted_older = {})
    /\ same_or_fresh => alerted \cap superseded = {}

C10_Witness ==
    /\ same_or_fresh
    /\ superseded # {}
    /\ alerted # {}
    /\ alerted \cap superseded = {}

====
